---- MODULE Spec2Model ----
(***************************************************************************)
(* Model of src/app.py: one invocation of the command-line tool            *)
(*   parse_args -> configure_logging -> read_input -> transform ->         *)
(*   render_output -> write_output                                         *)
(* with the exception handlers of run(), the file system the run touches,  *)
(* and the two output streams.                                             *)
(*                                                                         *)
(* A Python str is a sequence of one-character strings.  Optional[x] is    *)
(* the empty sequence (None) or the one-element sequence <<x>>.            *)
(***************************************************************************)
EXTENDS Integers, Sequences, FiniteSets, TLC

VARIABLES
    argv,       \* the parsed-out command line: what the user typed
    fs,         \* the file system: path -> [kind, data]
    pc,         \* position inside run()
    config,     \* the frozen Config (Optional: None before parse_args returns)
    rootLevel,  \* logging root level (Optional: None before basicConfig)
    raw_text,   \* run(): raw_text
    processed,  \* run(): processed
    result,     \* run(): result
    stdout,     \* what was print()ed to standard output
    stderr,     \* lines on the error stream (print(file=sys.stderr) and log records)
    handles,    \* open file handles: set of [path, mode]
    exc,        \* Optional: the exception that ended the run
    exit,       \* Optional: the exit code of the process
    trace,      \* the functions run() has called / returned from, in order
    io          \* the file and stdout operations performed, in order

vars == <<argv, fs, pc, config, rootLevel, raw_text, processed, result,
          stdout, stderr, handles, exc, exit, trace, io>>

\* ------------------------------------------------------------------ bounds

\* longest input string of the pure-function specification
MaxLen == 3
\* number of distinct wall-clock instants render_output may observe
MaxClock == 2

\* ------------------------------------------------------------- Python values

None == <<>>
Some(x) == <<x>>
IsNone(o) == o = <<>>
Val(o) == o[1]

APP_NAME == <<"a", "p", "p">>

\* the characters of the input strings: two whitespace characters, a lower-case
\* and an upper-case ASCII letter, the two characters JSON escapes with a
\* backslash, and a non-ASCII letter (U+00E9, whose upper case is U+00C9)
Whitespace == {" ", "\n"}
Chars == {" ", "\n", "a", "B", "\"", "\\", "U+00E9"}

RECURSIVE StringsUpTo(_)
StringsUpTo(n) ==
    IF n = 0 THEN {<<>>}
    ELSE LET shorter == StringsUpTo(n - 1)
         IN  shorter \cup {Append(s, c) : s \in {t \in shorter : Len(t) = n - 1}, c \in Chars}

\* str.strip(): drop leading, then trailing, whitespace
RECURSIVE lstrip(_)
lstrip(s) ==
    IF s = <<>> THEN s
    ELSE IF Head(s) \in Whitespace THEN lstrip(Tail(s)) ELSE s

RECURSIVE rstrip(_)
rstrip(s) ==
    IF s = <<>> THEN s
    ELSE IF s[Len(s)] \in Whitespace THEN rstrip(SubSeq(s, 1, Len(s) - 1)) ELSE s

strip(s) == rstrip(lstrip(s))

\* str.upper(), character by character
UpperChar(c) ==
    CASE c = "a" -> "A"
      [] c = "U+00E9" -> "U+00C9"
      [] OTHER -> c

upper(s) == [i \in 1..Len(s) |-> UpperChar(s[i])]

\* transform(text, uppercase)
transform_lstrip_only(text, uppercase) ==
    IF uppercase THEN upper(lstrip(text)) ELSE lstrip(text)

transform(text, uppercase) ==
    LET output == strip(text)
    IN  IF uppercase THEN upper(output) ELSE output

\* ------------------------------------------------------------------ json

\* str(n) for n >= 0
Digit(d) == <<"0", "1", "2", "3", "4", "5", "6", "7", "8", "9">>[d + 1]

RECURSIVE ItoA(_)
ItoA(n) == IF n < 10 THEN <<Digit(n)>> ELSE Append(ItoA(n \div 10), Digit(n % 10))

\* datetime.now(timezone.utc).isoformat() at instant n: an ASCII string the
\* clock determines
isoformat(n) == <<"T">> \o ItoA(n)

\* json.dumps of one character of a str, ensure_ascii=True
EscapeChar(c) ==
    CASE c = "\"" -> <<"\\", "\"">>
      [] c = "\\" -> <<"\\", "\\">>
      [] c = "\n" -> <<"\\", "n">>
      [] c = "U+00E9" -> <<"\\", "u", "0", "0", "e", "9">>
      [] c = "U+00C9" -> <<"\\", "u", "0", "0", "c", "9">>
      [] OTHER -> <<c>>

RECURSIVE EscapeBody(_)
EscapeBody(s) == IF s = <<>> THEN <<>> ELSE EscapeChar(Head(s)) \o EscapeBody(Tail(s))

\* json.dumps of a str
DumpsStr(s) == <<"\"">> \o EscapeBody(s) \o <<"\"">>

\* json.dumps of the payload dict, keys in insertion order, separators ", " and ": "
Dumps(app, length, timestamp, output) ==
    <<"{">> \o DumpsStr(<<"a", "p", "p">>) \o <<":", " ">> \o DumpsStr(app)
    \o <<",", " ">> \o DumpsStr(<<"l", "e", "n", "g", "t", "h">>) \o <<":", " ">> \o ItoA(length)
    \o <<",", " ">> \o DumpsStr(<<"t", "i", "m", "e", "s", "t", "a", "m", "p">>)
    \o <<":", " ">> \o DumpsStr(timestamp)
    \o <<",", " ">> \o DumpsStr(<<"o", "u", "t", "p", "u", "t">>) \o <<":", " ">> \o DumpsStr(output)
    \o <<"}">>

\* render_output(text, json_output) at wall-clock instant now
render_output_raw_length(text, json_output, now) ==
    IF ~json_output THEN text
    ELSE Dumps(APP_NAME, Len(EscapeBody(text)), isoformat(now), text)

render_output(text, json_output, now) ==
    IF ~json_output THEN text
    ELSE Dumps(APP_NAME, Len(text), isoformat(now), text)

\* ------------------------------------------------------------ command line

Paths == {"p", "q"}

\* values of --log-level as typed (or taken from APP_LOG_LEVEL)
LogLevels == {"info", "WARNING", "CRITICAL", "verbose"}

\* texts given with --text or held by the input file
SampleTexts == {<<>>, <<" ", "a", "\n">>, <<"B", "\"">>}

\* content of a regular file that is not the input
OldData == <<"o", "l", "d">>

\* str.upper() of a --log-level value
LevelUpper(l) ==
    CASE l = "info" -> "INFO"
      [] l = "verbose" -> "VERBOSE"
      [] OTHER -> l

\* argparse: the mutually exclusive, required group --text | --file.
\* None when the arguments are accepted, else the parser's error.
GroupError_allows_both(a) ==
    IF IsNone(a.text) /\ IsNone(a.file)
    THEN Some("one of the arguments --text --file is required")
    ELSE None

GroupError(a) ==
    IF ~IsNone(a.text) /\ ~IsNone(a.file)
    THEN Some("argument --file: not allowed with argument --text")
    ELSE IF IsNone(a.text) /\ IsNone(a.file)
    THEN Some("one of the arguments --text --file is required")
    ELSE None

\* Config(...) as parse_args builds it
MkConfig(a) ==
    [input_text |-> a.text, input_file |-> a.file, output_file |-> a.output,
     uppercase |-> a.uppercase, json_output |-> a.json,
     log_level |-> LevelUpper(a.log_level)]

\* ---------------------------------------------------------------- logging

\* getattr(logging, level, None) when it is an int, else None
LoggingLevel(level) ==
    CASE level = "CRITICAL" -> Some(50)
      [] level = "ERROR" -> Some(40)
      [] level = "WARNING" -> Some(30)
      [] level = "INFO" -> Some(20)
      [] level = "DEBUG" -> Some(10)
      [] level = "NOTSET" -> Some(0)
      [] OTHER -> None

Line(kind, fmt, arg) == [kind |-> kind, fmt |-> fmt, arg |-> arg]

\* logging.<level>(fmt, arg): a record on the error stream when the root
\* logger lets the level through
LogTo_ignores_level(stream, root, levelno, levelname, fmt, arg) ==
    Append(stream, Line(levelname, fmt, arg))

LogTo(stream, root, levelno, levelname, fmt, arg) ==
    IF ~IsNone(root) /\ levelno >= Val(root)
    THEN Append(stream, Line(levelname, fmt, arg))
    ELSE stream

\* ------------------------------------------------------------- exceptions

Exc(type, where, fmt, arg) == [type |-> type, where |-> where, fmt |-> fmt, arg |-> arg]

\* the classes an exception is an instance of
Mro(type) ==
    CASE type = "UnicodeDecodeError" -> {"UnicodeDecodeError", "ValueError", "Exception"}
      [] type = "ValueError" -> {"ValueError", "Exception"}
      [] type = "FileNotFoundError" -> {"FileNotFoundError", "OSError", "Exception"}
      [] type = "IsADirectoryError" -> {"IsADirectoryError", "OSError", "Exception"}
      [] type = "PermissionError" -> {"PermissionError", "OSError", "Exception"}
      [] type = "OSError" -> {"OSError", "Exception"}
      [] OTHER -> {type}

\* run(): the except clause that catches an exception of the type, as the
\* value run returns
ExitCodeFor(type) ==
    IF Mro(type) \cap {"ValueError", "FileNotFoundError"} # {} THEN 2 ELSE 1

\* run(): what the except clauses put on the error stream
Report(stream, root, e) ==
    IF ExitCodeFor(e.type) = 2
    THEN Append(stream, Line("Error", e.fmt, e.arg))
    ELSE Append(LogTo(stream, root, 40, "ERROR", "Unexpected error + traceback", e.type),
                Line("Unexpected error", e.fmt, e.arg))

\* an exception raised inside the try block of run()
Raise(e) ==
    /\ exc' = Some(e)
    /\ stderr' = Report(stderr, rootLevel, e)
    /\ exit' = Some(ExitCodeFor(e.type))
    /\ pc' = "exited"

\* ------------------------------------------------------------ file system

Kinds == {"absent", "noparent", "file", "binary", "dir", "denied"}

\* os.path.exists(path)
exists(path) == fs[path].kind \notin {"absent", "noparent"}

\* the exception open(path, "r") raises, or None
OpenReadError(path) ==
    CASE fs[path].kind \in {"absent", "noparent"} ->
            Some(Exc("FileNotFoundError", "read_input", "[Errno 2] No such file or directory: %r", path))
      [] fs[path].kind = "dir" ->
            Some(Exc("IsADirectoryError", "read_input", "[Errno 21] Is a directory: %r", path))
      [] fs[path].kind = "denied" ->
            Some(Exc("PermissionError", "read_input", "[Errno 13] Permission denied: %r", path))
      [] OTHER -> None

\* the exception open(path, "w") raises, or None
OpenWriteError(path) ==
    CASE fs[path].kind = "noparent" ->
            Some(Exc("FileNotFoundError", "write_output", "[Errno 2] No such file or directory: %r", path))
      [] fs[path].kind = "dir" ->
            Some(Exc("IsADirectoryError", "write_output", "[Errno 21] Is a directory: %r", path))
      [] fs[path].kind = "denied" ->
            Some(Exc("PermissionError", "write_output", "[Errno 13] Permission denied: %r", path))
      [] OTHER -> None

Handle(path, mode) == [path |-> path, mode |-> mode]
Io(op, path) == [op |-> op, path |-> path]

\* ------------------------------------------------------------------ run()

\* `if output_file:` -- None and the empty string are both false
Truthy(o) == ~IsNone(o) /\ Val(o) # ""

\* read_input: the exception for a path that does not exist
NotFoundError_without_path(path) ==
    Exc("FileNotFoundError", "read_input", "Input file not found", "")

NotFoundError(path) ==
    Exc("FileNotFoundError", "read_input", "Input file not found: %s", path)

Init ==
    \E src \in SampleTexts, hasText \in BOOLEAN, file \in {None, Some("p")},
       out \in {None, Some(""), Some("p"), Some("q")},
       up \in BOOLEAN, js \in BOOLEAN, lvl \in LogLevels, kp \in Kinds, kq \in Kinds :
        /\ argv = [text |-> IF hasText THEN Some(src) ELSE None, file |-> file,
                   output |-> out, uppercase |-> up, json |-> js, log_level |-> lvl]
        /\ fs = [x \in Paths |->
                    LET k == IF x = "p" THEN kp ELSE kq
                    IN  [kind |-> k,
                         data |-> IF k # "file" THEN <<>>
                                  ELSE IF x = "p" THEN src ELSE OldData]]
        /\ pc = "start"
        /\ config = None
        /\ rootLevel = None
        /\ raw_text = <<>>
        /\ processed = <<>>
        /\ result = <<>>
        /\ stdout = <<>>
        /\ stderr = <<>>
        /\ handles = {}
        /\ exc = None
        /\ exit = None
        /\ trace = <<>>
        /\ io = <<>>

\* config = parse_args(argv); a parser error prints the usage and the error
\* and raises SystemExit(2), which no except clause of run() catches
ParseArgs ==
    /\ pc = "start"
    /\ IF ~IsNone(GroupError(argv))
       THEN /\ stderr' = stderr \o <<Line("usage", "usage: app ...", ""),
                                     Line("app: error", Val(GroupError(argv)), "")>>
            /\ exc' = Some(Exc("SystemExit", "parse_args", Val(GroupError(argv)), ""))
            /\ exit' = Some(2)
            /\ pc' = "exited"
            /\ trace' = Append(trace, "parse_args")
            /\ UNCHANGED config
       ELSE /\ config' = Some(MkConfig(argv))
            /\ pc' = "parsed"
            /\ trace' = trace \o <<"parse_args", "parse_args.ret">>
            /\ UNCHANGED <<stderr, exc, exit>>
    /\ UNCHANGED <<argv, fs, rootLevel, raw_text, processed, result, stdout, handles, io>>

\* configure_logging(config.log_level)
ConfigureLogging ==
    /\ pc = "parsed"
    /\ LET level == Val(config).log_level
           numeric == LoggingLevel(level)
       IN  IF IsNone(numeric)
           THEN /\ Raise(Exc("ValueError", "configure_logging", "Invalid log level: %s", level))
                /\ trace' = Append(trace, "configure_logging")
                /\ UNCHANGED rootLevel
           ELSE /\ rootLevel' = numeric
                /\ pc' = "configured"
                /\ trace' = trace \o <<"configure_logging", "configure_logging.ret">>
                /\ UNCHANGED <<stderr, exc, exit>>
    /\ UNCHANGED <<argv, fs, config, raw_text, processed, result, stdout, handles, io>>

\* logging.info("Starting %s", APP_NAME)
LogStart ==
    /\ pc = "configured"
    /\ stderr' = LogTo(stderr, rootLevel, 20, "INFO", "Starting %s", "app")
    /\ pc' = "started"
    /\ UNCHANGED <<argv, fs, config, rootLevel, raw_text, processed, result, stdout,
                   handles, exc, exit, trace, io>>

\* read_input(config) up to and including open(); the text branch returns
ReadInput ==
    /\ pc = "started"
    /\ LET c == Val(config)
       IN  IF ~IsNone(c.input_text)
           THEN /\ raw_text' = Val(c.input_text)
                /\ pc' = "read"
                /\ trace' = trace \o <<"read_input", "read_input.ret">>
                /\ UNCHANGED <<stderr, exc, exit, handles, io>>
           ELSE IF IsNone(c.input_file)
           THEN /\ Raise(Exc("ValueError", "read_input",
                             "Either --text or --file must be provided.", ""))
                /\ trace' = Append(trace, "read_input")
                /\ UNCHANGED <<raw_text, handles, io>>
           ELSE IF ~exists(Val(c.input_file))
           THEN /\ Raise(NotFoundError(Val(c.input_file)))
                /\ trace' = Append(trace, "read_input")
                /\ UNCHANGED <<raw_text, handles, io>>
           ELSE IF ~IsNone(OpenReadError(Val(c.input_file)))
           THEN /\ Raise(Val(OpenReadError(Val(c.input_file))))
                /\ trace' = Append(trace, "read_input")
                /\ UNCHANGED <<raw_text, handles, io>>
           ELSE /\ handles' = handles \cup {Handle(Val(c.input_file), "r")}
                /\ io' = Append(io, Io("open_r", Val(c.input_file)))
                /\ pc' = "reading"
                /\ trace' = Append(trace, "read_input")
                /\ UNCHANGED <<raw_text, stderr, exc, exit>>
    /\ UNCHANGED <<argv, fs, config, rootLevel, processed, result, stdout>>

\* read_input: handle.read() and the end of the with block, which closes the
\* handle whether read() returned or raised
ReadHandle_leaks_on_error ==
    /\ pc = "reading"
    /\ LET path == Val(Val(config).input_file)
       IN  IF fs[path].kind = "binary"
           THEN /\ Raise(Exc("UnicodeDecodeError", "read_input",
                             "'utf-8' codec can't decode byte", ""))
                /\ io' = Append(io, Io("read", path))
                /\ UNCHANGED <<raw_text, trace, handles>>
           ELSE /\ raw_text' = fs[path].data
                /\ handles' = handles \ {Handle(path, "r")}
                /\ io' = io \o <<Io("read", path), Io("close", path)>>
                /\ pc' = "read"
                /\ trace' = Append(trace, "read_input.ret")
                /\ UNCHANGED <<stderr, exc, exit>>
    /\ UNCHANGED <<argv, fs, config, rootLevel, processed, result, stdout>>

ReadHandle ==
    /\ pc = "reading"
    /\ LET path == Val(Val(config).input_file)
       IN  /\ handles' = handles \ {Handle(path, "r")}
           /\ io' = io \o <<Io("read", path), Io("close", path)>>
           /\ IF fs[path].kind = "binary"
              THEN /\ Raise(Exc("UnicodeDecodeError", "read_input",
                                "'utf-8' codec can't decode byte", ""))
                   /\ UNCHANGED <<raw_text, trace>>
              ELSE /\ raw_text' = fs[path].data
                   /\ pc' = "read"
                   /\ trace' = Append(trace, "read_input.ret")
                   /\ UNCHANGED <<stderr, exc, exit>>
    /\ UNCHANGED <<argv, fs, config, rootLevel, processed, result, stdout>>

\* processed = transform(raw_text, config.uppercase)
DoTransform ==
    /\ pc = "read"
    /\ processed' = transform(raw_text, Val(config).uppercase)
    /\ pc' = "transformed"
    /\ trace' = trace \o <<"transform", "transform.ret">>
    /\ UNCHANGED <<argv, fs, config, rootLevel, raw_text, result, stdout, stderr,
                   handles, exc, exit, io>>

\* result = render_output(processed, config.json_output)
DoRender ==
    /\ pc = "transformed"
    /\ \E now \in 1..MaxClock :
           result' = render_output(processed, Val(config).json_output, now)
    /\ pc' = "rendered"
    /\ trace' = trace \o <<"render_output", "render_output.ret">>
    /\ UNCHANGED <<argv, fs, config, rootLevel, raw_text, processed, stdout, stderr,
                   handles, exc, exit, io>>

\* write_output(result, config.output_file) up to and including open(), which
\* creates or truncates the destination; without a destination, print(result)
WriteOutput ==
    /\ pc = "rendered"
    /\ LET o == Val(config).output_file
       IN  IF ~Truthy(o)
           THEN /\ stdout' = Append(stdout, result)
                /\ io' = Append(io, Io("print", "<stdout>"))
                /\ pc' = "written"
                /\ trace' = trace \o <<"write_output", "write_output.ret">>
                /\ UNCHANGED <<fs, handles, stderr, exc, exit>>
           ELSE IF ~IsNone(OpenWriteError(Val(o)))
           THEN /\ Raise(Val(OpenWriteError(Val(o))))
                /\ trace' = Append(trace, "write_output")
                /\ UNCHANGED <<fs, handles, stdout, io>>
           ELSE /\ fs' = [fs EXCEPT ![Val(o)] = [kind |-> "file", data |-> <<>>]]
                /\ handles' = handles \cup {Handle(Val(o), "w")}
                /\ io' = Append(io, Io("open_w", Val(o)))
                /\ pc' = "writing"
                /\ trace' = Append(trace, "write_output")
                /\ UNCHANGED <<stdout, stderr, exc, exit>>
    /\ UNCHANGED <<argv, config, rootLevel, raw_text, processed, result>>

\* write_output: handle.write(result), the end of the with block, and
\* logging.info("Wrote output to %s", output_file)
WriteHandle ==
    /\ pc = "writing"
    /\ LET path == Val(Val(config).output_file)
       IN  /\ fs' = [fs EXCEPT ![path].data = result]
           /\ handles' = handles \ {Handle(path, "w")}
           /\ io' = io \o <<Io("write", path), Io("close", path)>>
           /\ stderr' = LogTo(stderr, rootLevel, 20, "INFO", "Wrote output to %s", path)
    /\ pc' = "written"
    /\ trace' = Append(trace, "write_output.ret")
    /\ UNCHANGED <<argv, config, rootLevel, raw_text, processed, result, stdout, exc, exit>>

\* write_output: the device refuses the data (the buffered text reaches the
\* device in one piece, so nothing of it is stored); the with block closes the
\* handle and the OSError propagates
WriteHandleFails ==
    /\ pc = "writing"
    /\ LET path == Val(Val(config).output_file)
       IN  /\ handles' = handles \ {Handle(path, "w")}
           /\ io' = io \o <<Io("write_failed", path), Io("close", path)>>
           /\ Raise(Exc("OSError", "write_output", "[Errno 28] No space left on device", ""))
    /\ UNCHANGED <<argv, fs, config, rootLevel, raw_text, processed, result, stdout, trace>>

\* logging.info("Completed successfully"); return 0
Complete_without_writing ==
    /\ pc \in {"rendered", "written"}
    /\ stderr' = LogTo(stderr, rootLevel, 20, "INFO", "Completed successfully", "")
    /\ exit' = Some(0)
    /\ pc' = "exited"
    /\ UNCHANGED <<argv, fs, config, rootLevel, raw_text, processed, result, stdout,
                   handles, exc, trace, io>>

Complete ==
    /\ pc = "written"
    /\ stderr' = LogTo(stderr, rootLevel, 20, "INFO", "Completed successfully", "")
    /\ exit' = Some(0)
    /\ pc' = "exited"
    /\ UNCHANGED <<argv, fs, config, rootLevel, raw_text, processed, result, stdout,
                   handles, exc, trace, io>>

Next ==
    \/ ParseArgs
    \/ ConfigureLogging
    \/ LogStart
    \/ ReadInput
    \/ ReadHandle
    \/ DoTransform
    \/ DoRender
    \/ WriteOutput
    \/ WriteHandle
    \/ WriteHandleFails
    \/ Complete

Spec == Init /\ [][Next]_vars

\* ---------------------------------------------------------------------------
\* The pure functions on every string up to MaxLen: the state run() is in when
\* read_input has returned the text given with --text
InitPure ==
    \E s \in StringsUpTo(MaxLen), up \in BOOLEAN, js \in BOOLEAN :
        /\ argv = [text |-> Some(s), file |-> None, output |-> None,
                   uppercase |-> up, json |-> js, log_level |-> "info"]
        /\ fs = [x \in Paths |-> [kind |-> "absent", data |-> <<>>]]
        /\ pc = "read"
        /\ config = Some(MkConfig(argv))
        /\ rootLevel = LoggingLevel("INFO")
        /\ raw_text = s
        /\ processed = <<>>
        /\ result = <<>>
        /\ stdout = <<>>
        /\ stderr = <<Line("INFO", "Starting %s", "app")>>
        /\ handles = {}
        /\ exc = None
        /\ exit = None
        /\ trace = <<"parse_args", "parse_args.ret", "configure_logging",
                     "configure_logging.ret", "read_input", "read_input.ret">>
        /\ io = <<>>

NextPure ==
    \/ DoTransform
    \/ DoRender

SpecPure == InitPure /\ [][NextPure]_vars

\* ---------------------------------------------------------------------------
\* Reading a JSON text back (json.loads), used to state what a rendered
\* object holds

Range(f) == {f[i] : i \in DOMAIN f}

FromHex(h) ==
    CASE h = <<"0", "0", "e", "9">> -> "U+00E9"
      [] h = <<"0", "0", "c", "9">> -> "U+00C9"
      [] OTHER -> "U+FFFD"

Unescape(c) == IF c = "n" THEN "\n" ELSE c

\* the string literal whose body starts at s[i]: its value and the index after
\* the closing quote
RECURSIVE ParseStrBody(_, _, _)
ParseStrBody(s, i, acc) ==
    IF i > Len(s) THEN [val |-> acc, next |-> i]
    ELSE IF s[i] = "\"" THEN [val |-> acc, next |-> i + 1]
    ELSE IF s[i] = "\\"
         THEN IF s[i + 1] = "u"
              THEN ParseStrBody(s, i + 6, Append(acc, FromHex(SubSeq(s, i + 2, i + 5))))
              ELSE ParseStrBody(s, i + 2, Append(acc, Unescape(s[i + 1])))
    ELSE ParseStrBody(s, i + 1, Append(acc, s[i]))

DigitValue(c) == CHOOSE d \in 0..9 : Digit(d) = c

RECURSIVE ParseDigits(_, _, _)
ParseDigits(s, i, acc) ==
    IF i <= Len(s) /\ s[i] \in {Digit(d) : d \in 0..9}
    THEN ParseDigits(s, i + 1, 10 * acc + DigitValue(s[i]))
    ELSE [val |-> acc, next |-> i]

\* the members "key": value, ... starting at s[i], and the index of the
\* character that ends them
RECURSIVE ParseMembers(_, _, _)
ParseMembers(s, i, acc) ==
    LET k == ParseStrBody(s, i + 1, <<>>)
        j == k.next + 2
        v == IF s[j] = "\"" THEN ParseStrBody(s, j + 1, <<>>) ELSE ParseDigits(s, j, 0)
        members == Append(acc, [key |-> k.val, val |-> v.val])
    IN  IF v.next < Len(s) /\ s[v.next] = ","
        THEN ParseMembers(s, v.next + 2, members)
        ELSE [members |-> members, end |-> v.next]

JsonLoads(s) == ParseMembers(s, 2, <<>>)

IsJsonObject(s) ==
    /\ Len(s) >= 2
    /\ s[1] = "{"
    /\ JsonLoads(s).end = Len(s)
    /\ s[Len(s)] = "}"

JsonKeys(s) == [i \in DOMAIN JsonLoads(s).members |-> JsonLoads(s).members[i].key]

JsonField(s, key) ==
    LET m == JsonLoads(s).members
    IN  m[CHOOSE i \in DOMAIN m : m[i].key = key].val

\* ---------------------------------------------------------------------------
\* Vocabulary of the properties

Exited == pc = "exited"
Failed == Exited /\ ~IsNone(exc)
FailedIn(where) == Failed /\ Val(exc).where = where
FailedBeforeWrite ==
    Failed /\ Val(exc).where \in {"parse_args", "configure_logging", "read_input"}

BothGiven == ~IsNone(argv.text) /\ ~IsNone(argv.file)
NeitherGiven == IsNone(argv.text) /\ IsNone(argv.file)

Stages ==
    <<"parse_args", "parse_args.ret", "configure_logging", "configure_logging.ret",
      "read_input", "read_input.ret", "transform", "transform.ret",
      "render_output", "render_output.ret", "write_output", "write_output.ret">>

IsPrefix(a, b) == Len(a) <= Len(b) /\ a = SubSeq(b, 1, Len(a))

Count(seq, P(_)) == Cardinality({i \in DOMAIN seq : P(seq[i])})

IsOutputOp(e) == e.op \in {"open_w", "write", "write_failed", "print"}
IsWriteOp(e) == e.op \in {"write", "print"}

\* ---------------------------------------------------------------------------
\* C1: every run that fails with a user-input error (missing required input, a
\* missing input file, an input file that cannot be opened or read, an invalid
\* --log-level) ends with exit code 2, never 1.
C1_UserInputErrorsExit2 ==
    FailedBeforeWrite => exit = Some(2)

\* C2: with both --text and --file, or with neither, the run ends with exit
\* code 2 and read_input, transform, render_output and write_output have not
\* run; whenever transform has run, exactly one of input_text and input_file
\* is set in the Config.
C2_ExactlyOneInput ==
    /\ (BothGiven \/ NeitherGiven) /\ pc # "start" =>
          /\ Exited
          /\ exit = Some(2)
          /\ trace = <<"parse_args">>
          /\ io = <<>>
          /\ stdout = <<>>
    /\ "transform" \in Range(trace) =>
          /\ ~IsNone(config)
          /\ IsNone(Val(config).input_text) # IsNone(Val(config).input_file)

C2_Witness ==
    Exited /\ BothGiven /\ exit = Some(2)

\* C3: a run with --file P and a valid log level, where P is not an existing
\* file, ends with exit code 2 and an error-stream message that contains P as
\* given.
C3_MissingFileNamed ==
    \A P \in Paths :
        ( /\ Exited
          /\ argv.file = Some(P)
          /\ IsNone(argv.text)
          /\ "configure_logging.ret" \in Range(trace)
          /\ ~exists(P) ) =>
            /\ exit = Some(2)
            /\ \E i \in DOMAIN stderr :
                  /\ stderr[i].kind = "Error"
                  /\ stderr[i].fmt = "Input file not found: %s"
                  /\ stderr[i].arg = P

C3_Witness ==
    /\ Exited
    /\ argv.file = Some("p")
    /\ IsNone(argv.text)
    /\ fs["p"].kind = "noparent"
    /\ exit = Some(2)
    /\ stderr[Len(stderr)] = Line("Error", "Input file not found: %s", "p")

\* C4: every failure to open or write the --output destination ends with exit
\* code 1 (an unanticipated I/O error), never with exit code 2.
C4_OutputFailuresExit1 ==
    FailedIn("write_output") => exit = Some(1)

\* C5: a run that ends with exit code 0 rendered once and wrote the rendered
\* output once, to exactly one destination: the file when --output was given
\* (whatever its value, the empty string included), else standard output.
C5_OneDestination ==
    exit = Some(0) =>
        /\ Count(trace, LAMBDA e : e = "render_output") = 1
        /\ Count(io, IsWriteOp) = 1
        /\ IF ~IsNone(argv.output)
           THEN /\ stdout = <<>>
                /\ Count(io, LAMBDA e : e = Io("write", Val(argv.output))) = 1
           ELSE /\ stdout = <<result>>
                /\ Count(io, LAMBDA e : e.op = "print") = 1

\* C6: for a non-empty s, transform(s, FALSE) is s without its leading and
\* trailing whitespace and with no character changed, and transform(s, TRUE)
\* is that string with every letter upper-cased; the result is fixed by
\* (s, uppercase).
C6_Transform ==
    (pc \in {"transformed", "rendered"} /\ raw_text # <<>>) =>
        LET s == raw_text
            t == processed
            u == Val(config).uppercase
        IN  \E i \in 1..(Len(s) + 1) :
                LET j == i + Len(t) - 1
                IN  /\ j <= Len(s)
                    /\ \A k \in 1..(i - 1) : s[k] \in Whitespace
                    /\ \A k \in (j + 1)..Len(s) : s[k] \in Whitespace
                    /\ Len(t) > 0 => s[i] \notin Whitespace /\ s[j] \notin Whitespace
                    /\ \A k \in 1..Len(t) :
                          IF u
                          THEN /\ t[k] \notin {"a", "U+00E9"}
                               /\ t[k] = (CASE s[i + k - 1] = "a" -> "A"
                                            [] s[i + k - 1] = "U+00E9" -> "U+00C9"
                                            [] OTHER -> s[i + k - 1])
                          ELSE t[k] = s[i + k - 1]

C6_Witness ==
    /\ pc = "transformed"
    /\ raw_text = <<"\n", "a", " ">>
    /\ Val(config).uppercase
    /\ processed = <<"A">>

\* C7: render_output(t, FALSE) is t; render_output(t, TRUE) is a JSON object
\* whose "length" is the number of characters of t, whose "output" is t and
\* whose "app" is the program name; but for "timestamp" it is fixed by t.
C7_Render ==
    pc = "rendered" =>
        IF ~Val(config).json_output
        THEN result = processed
        ELSE /\ IsJsonObject(result)
             /\ JsonKeys(result) = <<APP_NAME, <<"l", "e", "n", "g", "t", "h">>,
                                     <<"t", "i", "m", "e", "s", "t", "a", "m", "p">>,
                                     <<"o", "u", "t", "p", "u", "t">>>>
             /\ JsonField(result, APP_NAME) = APP_NAME
             /\ JsonField(result, <<"l", "e", "n", "g", "t", "h">>) = Len(processed)
             /\ JsonField(result, <<"o", "u", "t", "p", "u", "t">>) = processed

C7_Witness ==
    /\ pc = "rendered"
    /\ Val(config).json_output
    /\ processed = <<"\"", "\\", "U+00C9">>
    /\ JsonField(result, <<"l", "e", "n", "g", "t", "h">>) = 3

\* C8: the stages run in the order read_input, transform, render_output,
\* write_output, each at most once and each after the one before it has
\* returned; the log level is validated before the input is read; exit code 0
\* and the 'Completed successfully' record come only after write_output has
\* returned; and the step that opens (truncates) the output happens when the
\* whole input has been read, also when both are the same path.
C8_StageOrder ==
    /\ [](/\ IsPrefix(trace, Stages)
          /\ io # <<>> => "configure_logging.ret" \in Range(trace)
          /\ (\/ exit = Some(0)
              \/ \E i \in DOMAIN stderr : stderr[i].fmt = "Completed successfully")
                => trace = Stages)
    /\ [][fs' # fs =>
            /\ "read_input.ret" \in Range(trace)
            /\ raw_text' = raw_text
            /\ \A P \in Paths :
                  (Val(config).input_file = Some(P) /\ Io("open_w", P) \notin Range(io)) =>
                      /\ raw_text = fs[P].data
                      /\ Io("close", P) \in Range(io)]_vars

C8_Witness ==
    /\ exit = Some(0)
    /\ Val(config).input_file = Some("p")
    /\ Val(config).output_file = Some("p")
    /\ raw_text = <<" ", "a", "\n">>
    /\ fs["p"].data = result
    /\ io = <<Io("open_r", "p"), Io("read", "p"), Io("close", "p"),
              Io("open_w", "p"), Io("write", "p"), Io("close", "p")>>

\* C9: no file handle is open when run returns, on any path: the input file
\* is open only while read_input reads it, in mode "r", and is closed whether
\* the read returned or raised; the output file is open only while
\* write_output writes it, in mode "w", truncated, and is closed whether the
\* write returned or raised.
C9_HandlesClosed ==
    /\ Exited => handles = {}
    /\ pc \notin {"reading", "writing"} => handles = {}
    /\ pc = "reading" => handles = {Handle(Val(Val(config).input_file), "r")}
    /\ pc = "writing" =>
          /\ handles = {Handle(Val(Val(config).output_file), "w")}
          /\ fs[Val(Val(config).output_file)] = [kind |-> "file", data |-> <<>>]
    /\ \A P \in Paths :
          Exited => Count(io, LAMBDA e : e.path = P /\ e.op \in {"open_r", "open_w"})
                      = Count(io, LAMBDA e : e = Io("close", P))

C9_Witness ==
    /\ Failed
    /\ Val(exc).type = "UnicodeDecodeError"
    /\ io = <<Io("open_r", "p"), Io("read", "p"), Io("close", "p")>>
    /\ handles = {}

\* the lines of an error report: argparse's usage and error, the "Error:"
\* line, the logged traceback and the "Unexpected error:" line
IsErrorLine(l) == l.kind \in {"usage", "app: error", "Error", "ERROR", "Unexpected error"}

\* no write, truncation or creation of a file, nothing on standard output
OutputUntouched ==
    /\ stdout = <<>>
    /\ Count(io, IsOutputOp) = 0
    /\ "write_output" \notin Range(trace)

\* C10 as stated: a run that fails before the write stage leaves the output
\* side untouched, and the error message on the error stream is its only
\* output.
C10_OnlyErrorMessage ==
    FailedBeforeWrite =>
        /\ OutputUntouched
        /\ stderr # <<>>
        /\ \A i \in DOMAIN stderr : IsErrorLine(stderr[i])

\* C10, amended: a run that fails before the write stage leaves the output
\* side untouched (a file changes only in a step of write_output); all its
\* output is on the error stream: the error report, preceded by the
\* 'Starting app' record exactly when the log level was accepted and lets INFO
\* through.
C10_OutputUntouched ==
    /\ [](FailedBeforeWrite =>
            LET started == /\ "configure_logging.ret" \in Range(trace)
                           /\ Val(rootLevel) <= 20
                report == IF started THEN Tail(stderr) ELSE stderr
            IN  /\ OutputUntouched
                /\ stderr # <<>>
                /\ started => Head(stderr) = Line("INFO", "Starting %s", "app")
                /\ report # <<>>
                /\ \A i \in DOMAIN report : IsErrorLine(report[i]))
    /\ [][fs' # fs => "write_output" \in Range(trace')]_vars

C10_Witness ==
    /\ FailedIn("read_input")
    /\ Val(exc).type = "FileNotFoundError"
    /\ Val(config).output_file = Some("q")
    /\ fs["q"].kind = "absent"
    /\ stdout = <<>>
    /\ stderr = <<Line("INFO", "Starting %s", "app"),
                  Line("Error", "Input file not found: %s", "p")>>

====
